---- MODULE Spec2Model ----
(***************************************************************************)
(* Subsidy estimation of the marketplace plan browser.                     *)
(*                                                                         *)
(* Two variants of estimateSubsidy exist: the 2026 one (src/db/import.js,  *)
(* hard cutoff above 400% FPL) and the older one (src/routes/plans.js,     *)
(* 8.5% cap above 400% FPL).  Both are pure functions of (income,          *)
(* householdSize, benchmarkPremium).                                       *)
(*                                                                         *)
(* JavaScript numbers are modelled as exact rationals: a number is the     *)
(* record [w, n, d] standing for w + n/d with 0 <= n < d, kept in lowest   *)
(* terms.  Products that would not fit a machine integer are formed by     *)
(* repeated doubling (MulDivMod), so every value is exact.                 *)
(***************************************************************************)
EXTENDS Integers, Naturals, Sequences, FiniteSets, TLC

----------------------------------------------------------------------------
(* Exact arithmetic on JavaScript numbers *)

RECURSIVE GCD(_, _)
GCD(a, b) == IF b = 0 THEN a ELSE GCD(b, a % b)

\* w + n/d in lowest terms, 0 <= n < d.  n may be any integer on entry.
Num(w, n, d) ==
  LET q == n \div d
      r == n % d
      g == GCD(d, r)
  IN  [w |-> w + q, n |-> r \div g, d |-> d \div g]

Int2Num(k) == [w |-> k, n |-> 0, d |-> 1]

\* a decimal literal such as 0.0314 is Dec(314, 10000)
Dec(n, d) == Num(0, n, d)

\* [q, r] with a * b = q * c + r and 0 <= r < c, for a >= 0, 0 <= b < c,
\* formed by doubling so that no intermediate exceeds 2 * c.
RECURSIVE MulDivMod(_, _, _)
MulDivMod(a, b, c) ==
  IF a = 0 THEN [q |-> 0, r |-> 0]
  ELSE LET h  == MulDivMod(a \div 2, b, c)
           c1 == IF h.r >= c - h.r THEN 1 ELSE 0
           r1 == IF c1 = 1 THEN h.r - (c - h.r) ELSE h.r + h.r
           ad == IF a % 2 = 1 THEN b ELSE 0
           c2 == IF r1 >= c - ad THEN 1 ELSE 0
           r2 == IF c2 = 1 THEN r1 - (c - ad) ELSE r1 + ad
       IN  [q |-> 2 * h.q + c1 + c2, r |-> r2]

NLcm(a, b) == (a \div GCD(a, b)) * b

NAdd(a, b) ==
  LET L  == NLcm(a.d, b.d)
      x  == a.n * (L \div a.d)
      y  == b.n * (L \div b.d)
      cy == IF x >= L - y THEN 1 ELSE 0
      s  == IF cy = 1 THEN x - (L - y) ELSE x + y
  IN  Num(a.w + b.w + cy, s, L)

NNeg(a) == IF a.n = 0 THEN [w |-> -a.w, n |-> 0, d |-> 1]
           ELSE [w |-> -a.w - 1, n |-> a.d - a.n, d |-> a.d]

NSub(a, b) == NAdd(a, NNeg(b))

\* k * a for an integer k
NMulInt(k, a) ==
  IF k >= 0
  THEN LET m == MulDivMod(k, a.n, a.d) IN Num(k * a.w + m.q, m.r, a.d)
  ELSE NNeg(LET m == MulDivMod(-k, a.n, a.d) IN Num((-k) * a.w + m.q, m.r, a.d))

\* a / k for an integer k > 0
NDivInt(a, k) == Num(a.w \div k, (a.w % k) * a.d + a.n, k * a.d)

\* a * b
NMul(a, b) ==
  LET p1 == NMulInt(a.w, b)
      p2 == NMulInt(b.w, [w |-> 0, n |-> a.n, d |-> a.d])
      g1 == GCD(a.d, b.n)
      g2 == GCD(b.d, a.n)
      p3 == IF a.n = 0 \/ b.n = 0 THEN Int2Num(0)
            ELSE Num(0, (a.n \div g2) * (b.n \div g1), (a.d \div g1) * (b.d \div g2))
  IN  NAdd(NAdd(p1, p2), p3)

NLt(a, b) ==
  \/ a.w < b.w
  \/ /\ a.w = b.w
     /\ LET g == GCD(a.d, b.d) IN a.n * (b.d \div g) < b.n * (a.d \div g)

NLe(a, b) == ~NLt(b, a)

NMax(a, b) == IF NLt(a, b) THEN b ELSE a

\* Math.round: the nearest integer, ties towards +infinity
Round(a) == a.w + (IF a.n >= a.d - a.n THEN 1 ELSE 0)


----------------------------------------------------------------------------
(* The 2026 variant: src/db/import.js *)

\* 2025 Federal Poverty Level guidelines, used for 2026 coverage
FPL_BASE == 15650
FPL_PER_PERSON == 5500

\* the "not eligible" sentinel returned by getApplicablePercentage
Null == [null |-> TRUE]

IntMax(a, b) == IF a >= b THEN a ELSE b

\* getFPL without Math.max(0, ...)
getFPL_NoClamp(householdSize) ==
  FPL_BASE + ((householdSize - 1) * FPL_PER_PERSON)

getFPL(householdSize) ==
  FPL_BASE + (IntMax(0, householdSize - 1) * FPL_PER_PERSON)

\* getFPLPercent rounding before it returns
getFPLPercent_Rounded(income, householdSize) ==
  LET fpl == getFPL(householdSize)
  IN  IF income >= 0
      THEN Int2Num(Round(NMulInt(100, Num(0, income, fpl))))
      ELSE Int2Num(Round(NNeg(NMulInt(100, Num(0, -income, fpl)))))

\* getFPLPercent dividing by the one-person poverty level
getFPLPercent_IgnoresSize(income, householdSize) ==
  LET fpl == FPL_BASE
  IN  IF income >= 0
      THEN NMulInt(100, Num(0, income, fpl))
      ELSE NNeg(NMulInt(100, Num(0, -income, fpl)))

\* (income / fpl) * 100
getFPLPercent(income, householdSize) ==
  LET fpl == getFPL(householdSize)
  IN  IF income >= 0
      THEN NMulInt(100, Num(0, income, fpl))
      ELSE NNeg(NMulInt(100, Num(0, -income, fpl)))

\* the 100-133 band with two digits exchanged
Band100_133_Transposed(fplPercent) == Dec(120, 10000)

\* 100% to 133%: 2.10% flat
Band100_133(fplPercent) == Dec(210, 10000)

\* 133% to 150%: 3.14% to 4.19%
Band133_150(fplPercent) ==
  NAdd(Dec(314, 10000),
       NMul(NDivInt(NSub(fplPercent, Int2Num(133)), 17),
            NSub(Dec(419, 10000), Dec(314, 10000))))

\* the 150-200 band starting from 4.20%
Band150_200_Off(fplPercent) ==
  NAdd(Dec(420, 10000),
       NMul(NDivInt(NSub(fplPercent, Int2Num(150)), 50),
            NSub(Dec(660, 10000), Dec(420, 10000))))

\* 150% to 200%: 4.19% to 6.60%
Band150_200(fplPercent) ==
  NAdd(Dec(419, 10000),
       NMul(NDivInt(NSub(fplPercent, Int2Num(150)), 50),
            NSub(Dec(660, 10000), Dec(419, 10000))))

\* the 200-250 band dividing by the width of the 133-150 band
Band200_250_Div17(fplPercent) ==
  NAdd(Dec(660, 10000),
       NMul(NDivInt(NSub(fplPercent, Int2Num(200)), 17),
            NSub(Dec(844, 10000), Dec(660, 10000))))

\* 200% to 250%: 6.60% to 8.44%
Band200_250(fplPercent) ==
  NAdd(Dec(660, 10000),
       NMul(NDivInt(NSub(fplPercent, Int2Num(200)), 50),
            NSub(Dec(844, 10000), Dec(660, 10000))))

\* the 250-300 band with its two endpoint percentages exchanged
Band250_300_Swapped(fplPercent) ==
  NAdd(Dec(996, 10000),
       NMul(NDivInt(NSub(fplPercent, Int2Num(250)), 50),
            NSub(Dec(844, 10000), Dec(996, 10000))))

\* 250% to 300%: 8.44% to 9.96%
Band250_300(fplPercent) ==
  NAdd(Dec(844, 10000),
       NMul(NDivInt(NSub(fplPercent, Int2Num(250)), 50),
            NSub(Dec(996, 10000), Dec(844, 10000))))

\* the 300-400 band with a mistyped percentage
Band300_400_Typo(fplPercent) == Dec(96, 10000)

\* 300% to 400%: 9.96% flat
Band300_400(fplPercent) == Dec(996, 10000)

\* getApplicablePercentage refusing 400% itself
getApplicablePercentage_Exclusive400(fplPercent) ==
  IF NLt(fplPercent, Int2Num(100)) THEN Null
  ELSE IF NLe(Int2Num(400), fplPercent) THEN Null
  ELSE IF NLe(fplPercent, Int2Num(133)) THEN Band100_133(fplPercent)
  ELSE IF NLe(fplPercent, Int2Num(150)) THEN Band133_150(fplPercent)
  ELSE IF NLe(fplPercent, Int2Num(200)) THEN Band150_200(fplPercent)
  ELSE IF NLe(fplPercent, Int2Num(250)) THEN Band200_250(fplPercent)
  ELSE IF NLe(fplPercent, Int2Num(300)) THEN Band250_300(fplPercent)
  ELSE Band300_400(fplPercent)

\* getApplicablePercentage testing the bands with < instead of <=
getApplicablePercentage_Strict(fplPercent) ==
  IF NLt(fplPercent, Int2Num(100)) THEN Null
  ELSE IF NLt(Int2Num(400), fplPercent) THEN Null
  ELSE IF NLt(fplPercent, Int2Num(133)) THEN Band100_133(fplPercent)
  ELSE IF NLt(fplPercent, Int2Num(150)) THEN Band133_150(fplPercent)
  ELSE IF NLt(fplPercent, Int2Num(200)) THEN Band150_200(fplPercent)
  ELSE IF NLt(fplPercent, Int2Num(250)) THEN Band200_250(fplPercent)
  ELSE IF NLt(fplPercent, Int2Num(300)) THEN Band250_300(fplPercent)
  ELSE Band300_400(fplPercent)

getApplicablePercentage(fplPercent) ==
  IF NLt(fplPercent, Int2Num(100)) THEN Null
  ELSE IF NLt(Int2Num(400), fplPercent) THEN Null
  ELSE IF NLe(fplPercent, Int2Num(133)) THEN Band100_133(fplPercent)
  ELSE IF NLe(fplPercent, Int2Num(150)) THEN Band133_150(fplPercent)
  ELSE IF NLe(fplPercent, Int2Num(200)) THEN Band150_200(fplPercent)
  ELSE IF NLe(fplPercent, Int2Num(250)) THEN Band200_250(fplPercent)
  ELSE IF NLe(fplPercent, Int2Num(300)) THEN Band250_300(fplPercent)
  ELSE Band300_400(fplPercent)

\* estimateSubsidy without Math.max(0, ...)
estimateSubsidy_NoMax(income, householdSize, benchmarkPremium) ==
  LET fplPercent        == getFPLPercent(income, householdSize)
      applicablePercent == getApplicablePercentage(fplPercent)
  IN  IF applicablePercent = Null
      THEN [subsidy             |-> 0,
            fplPercent          |-> Round(fplPercent),
            eligible            |-> FALSE,
            monthlyContribution |-> IF NLt(fplPercent, Int2Num(100)) THEN 0
                                    ELSE Round(benchmarkPremium)]
      ELSE LET monthlyContribution == NDivInt(NMulInt(income, applicablePercent), 12)
               subsidy == NSub(benchmarkPremium, monthlyContribution)
           IN  [subsidy             |-> Round(subsidy),
                fplPercent          |-> Round(fplPercent),
                eligible            |-> TRUE,
                monthlyContribution |-> Round(monthlyContribution)]

\* estimateSubsidy with the two arms of the not-eligible contribution exchanged
estimateSubsidy_ArmsSwapped(income, householdSize, benchmarkPremium) ==
  LET fplPercent        == getFPLPercent(income, householdSize)
      applicablePercent == getApplicablePercentage(fplPercent)
  IN  IF applicablePercent = Null
      THEN [subsidy             |-> 0,
            fplPercent          |-> Round(fplPercent),
            eligible            |-> FALSE,
            monthlyContribution |-> IF NLt(fplPercent, Int2Num(100))
                                    THEN Round(benchmarkPremium) ELSE 0]
      ELSE LET monthlyContribution == NDivInt(NMulInt(income, applicablePercent), 12)
               subsidy == NMax(Int2Num(0), NSub(benchmarkPremium, monthlyContribution))
           IN  [subsidy             |-> Round(subsidy),
                fplPercent          |-> Round(fplPercent),
                eligible            |-> TRUE,
                monthlyContribution |-> Round(monthlyContribution)]

\* estimateSubsidy rounding the contribution before it is subtracted
estimateSubsidy_RoundedFirst(income, householdSize, benchmarkPremium) ==
  LET fplPercent        == getFPLPercent(income, householdSize)
      applicablePercent == getApplicablePercentage(fplPercent)
  IN  IF applicablePercent = Null
      THEN [subsidy             |-> 0,
            fplPercent          |-> Round(fplPercent),
            eligible            |-> FALSE,
            monthlyContribution |-> IF NLt(fplPercent, Int2Num(100)) THEN 0
                                    ELSE Round(benchmarkPremium)]
      ELSE LET monthlyContribution ==
                 Int2Num(Round(NDivInt(NMulInt(income, applicablePercent), 12)))
               subsidy == NMax(Int2Num(0), NSub(benchmarkPremium, monthlyContribution))
           IN  [subsidy             |-> Round(subsidy),
                fplPercent          |-> Round(fplPercent),
                eligible            |-> TRUE,
                monthlyContribution |-> Round(monthlyContribution)]

\* estimateSubsidy without the null test: income * null is 0 in JavaScript
estimateSubsidy_NoNullCheck(income, householdSize, benchmarkPremium) ==
  LET fplPercent        == getFPLPercent(income, householdSize)
      applicablePercent == getApplicablePercentage(fplPercent)
      monthlyContribution ==
        IF applicablePercent = Null THEN Int2Num(0)
        ELSE NDivInt(NMulInt(income, applicablePercent), 12)
      subsidy == NMax(Int2Num(0), NSub(benchmarkPremium, monthlyContribution))
  IN  [subsidy             |-> Round(subsidy),
       fplPercent          |-> Round(fplPercent),
       eligible            |-> TRUE,
       monthlyContribution |-> Round(monthlyContribution)]

estimateSubsidy(income, householdSize, benchmarkPremium) ==
  LET fplPercent        == getFPLPercent(income, householdSize)
      applicablePercent == getApplicablePercentage(fplPercent)
  IN  IF applicablePercent = Null
      THEN [subsidy             |-> 0,
            fplPercent          |-> Round(fplPercent),
            eligible            |-> FALSE,
            monthlyContribution |-> IF NLt(fplPercent, Int2Num(100)) THEN 0
                                    ELSE Round(benchmarkPremium)]
      ELSE LET monthlyContribution == NDivInt(NMulInt(income, applicablePercent), 12)
               subsidy == NMax(Int2Num(0), NSub(benchmarkPremium, monthlyContribution))
           IN  [subsidy             |-> Round(subsidy),
                fplPercent          |-> Round(fplPercent),
                eligible            |-> TRUE,
                monthlyContribution |-> Round(monthlyContribution)]

----------------------------------------------------------------------------
(* The older variant: src/routes/plans.js *)

\* 2024 Federal Poverty Level guidelines
FPL_BASE_Old == 15060
FPL_PER_PERSON_Old == 5380

getFPLOld(householdSize) ==
  FPL_BASE_Old + (IntMax(0, householdSize - 1) * FPL_PER_PERSON_Old)

getFPLPercentOld(income, householdSize) ==
  LET fpl == getFPLOld(householdSize)
  IN  IF income >= 0
      THEN NMulInt(100, Num(0, income, fpl))
      ELSE NNeg(NMulInt(100, Num(0, -income, fpl)))

\* the if / else-if chain that sets contributionPercent
contributionPercentOld(fplPercent) ==
  IF NLe(fplPercent, Int2Num(150)) THEN Int2Num(0)
  ELSE IF NLe(fplPercent, Int2Num(200))
    THEN NMul(NDivInt(NSub(fplPercent, Int2Num(150)), 50), Dec(2, 100))
  ELSE IF NLe(fplPercent, Int2Num(250))
    THEN NAdd(Dec(2, 100), NMul(NDivInt(NSub(fplPercent, Int2Num(200)), 50), Dec(2, 100)))
  ELSE IF NLe(fplPercent, Int2Num(300))
    THEN NAdd(Dec(4, 100), NMul(NDivInt(NSub(fplPercent, Int2Num(250)), 50), Dec(2, 100)))
  ELSE NAdd(Dec(6, 100), NMul(NDivInt(NSub(fplPercent, Int2Num(300)), 100), Dec(25, 1000)))

\* the older contribution rate with a cap of 9.5% above 400%
contributionRateOld_Cap95(fplPercent) ==
  IF NLt(Int2Num(400), fplPercent) THEN Dec(95, 1000)
  ELSE contributionPercentOld(fplPercent)

\* the share of income the older estimateSubsidy charges at fplPercent:
\* 0.085 in the branch above 400, contributionPercent below
contributionRateOld(fplPercent) ==
  IF NLt(Int2Num(400), fplPercent) THEN Dec(85, 1000)
  ELSE contributionPercentOld(fplPercent)

\* the older estimateSubsidy with the hard cutoff of the 2026 rules
estimateSubsidyOld_HardCutoff(income, householdSize, benchmarkPremium) ==
  LET fplPercent == getFPLPercentOld(income, householdSize)
  IN  IF NLt(Int2Num(400), fplPercent)
      THEN [subsidy    |-> 0,
            fplPercent |-> Round(fplPercent),
            eligible   |-> FALSE]
      ELSE LET contributionPercent == contributionPercentOld(fplPercent)
               monthlyContribution == NDivInt(NMulInt(income, contributionPercent), 12)
               subsidy == NMax(Int2Num(0), NSub(benchmarkPremium, monthlyContribution))
           IN  [subsidy             |-> Round(subsidy),
                fplPercent          |-> Round(fplPercent),
                eligible            |-> NLe(Int2Num(100), fplPercent)
                                        /\ NLe(fplPercent, Int2Num(400)),
                monthlyContribution |-> Round(monthlyContribution)]

estimateSubsidyOld(income, householdSize, benchmarkPremium) ==
  LET fplPercent == getFPLPercentOld(income, householdSize)
  IN  IF NLt(Int2Num(400), fplPercent)
      THEN LET maxContribution == NDivInt(NMulInt(income, Dec(85, 1000)), 12)
               subsidy == NMax(Int2Num(0), NSub(benchmarkPremium, maxContribution))
           IN  [subsidy    |-> Round(subsidy),
                fplPercent |-> Round(fplPercent),
                eligible   |-> NLt(Int2Num(0), subsidy)]
      ELSE LET contributionPercent == contributionPercentOld(fplPercent)
               monthlyContribution == NDivInt(NMulInt(income, contributionPercent), 12)
               subsidy == NMax(Int2Num(0), NSub(benchmarkPremium, monthlyContribution))
           IN  [subsidy             |-> Round(subsidy),
                fplPercent          |-> Round(fplPercent),
                eligible            |-> NLe(Int2Num(100), fplPercent)
                                        /\ NLe(fplPercent, Int2Num(400)),
                monthlyContribution |-> Round(monthlyContribution)]

----------------------------------------------------------------------------
(* JavaScript values used by the route handlers *)

\* a number held in a variable that may also hold null or NaN
JSNum(v) == [num |-> v]
NaN == [nan |-> TRUE]
Infinity == [inf |-> TRUE]

\* the truthiness test treating 0 like any other number
Truthy_ZeroOk(x) ==
  /\ x # Null
  /\ x # NaN

\* the truthiness of a number, null or NaN in `x ? ... : ...`, `x && y`, `x || y`
Truthy(x) ==
  /\ x # Null
  /\ x # NaN
  /\ x # JSNum(0)
  /\ x # Int2Num(0)

DigitChars == {"0", "1", "2", "3", "4", "5", "6", "7", "8", "9"}

DigitVal(c) ==
  CASE c = "0" -> 0 [] c = "1" -> 1 [] c = "2" -> 2 [] c = "3" -> 3 [] c = "4" -> 4
    [] c = "5" -> 5 [] c = "6" -> 6 [] c = "7" -> 7 [] c = "8" -> 8 [] c = "9" -> 9

\* income.replace(/,/g, '') on a string given as its sequence of characters
RemoveCommas(str) == SelectSeq(str, LAMBDA c : c # ",")

\* value of the longest prefix of digits of str, read after acc
RECURSIVE DigitPrefix(_, _)
DigitPrefix(str, acc) ==
  IF str = <<>> \/ Head(str) \notin DigitChars THEN acc
  ELSE DigitPrefix(Tail(str), 10 * acc + DigitVal(Head(str)))

\* parseInt(str, 10): an optional sign, then the leading digits; NaN without one
parseInt(str) ==
  LET signed == str # <<>> /\ Head(str) \in {"-", "+"}
      body   == IF signed THEN Tail(str) ELSE str
  IN  IF body = <<>> \/ Head(body) \notin DigitChars THEN NaN
      ELSE IF signed /\ Head(str) = "-" THEN JSNum(-DigitPrefix(body, 0))
      ELSE JSNum(DigitPrefix(body, 0))

----------------------------------------------------------------------------
(* GET /plans and GET /plan/:id *)

\* no row in the rates table for the plan and the selected age
NoRate == [norate |-> TRUE]

\* the premium of a rate row: the tobacco rate when asked for and present
RatePremium(rate, isTobacco) ==
  IF isTobacco /\ Truthy(rate.individual_tobacco_rate)
  THEN rate.individual_tobacco_rate
  ELSE rate.individual_rate

\* the rows of the plan query: the plans of the area that pass the filters
FilterPlans(rows, metal, type, issuer) ==
  SelectSeq(rows, LAMBDA p :
    /\ (metal # "" /\ metal # "all") => p.metal_level = metal
    /\ (type # "" /\ type # "all") => p.plan_type = type
    /\ (issuer # "" /\ issuer # "all") => p.issuer_name = issuer)

\* insert x into the ascending sequence of numbers
RECURSIVE InsertAscending(_, _)
InsertAscending(x, sorted) ==
  IF sorted = <<>> THEN <<x>>
  ELSE IF NLt(x, Head(sorted)) THEN <<x>> \o sorted
  ELSE <<Head(sorted)>> \o InsertAscending(x, Tail(sorted))

\* .sort((a, b) => a - b)
RECURSIVE SortAscending(_)
SortAscending(nums) ==
  IF nums = <<>> THEN <<>>
  ELSE InsertAscending(nums[Len(nums)], SortAscending(SubSeq(nums, 1, Len(nums) - 1)))

\* the premiums of the Silver plans among plans that have a rate, ascending
RECURSIVE SilverPremiums(_, _)
SilverPremiums(plans, isTobacco) ==
  IF plans = <<>> THEN <<>>
  ELSE LET p == Head(plans)
           rest == SilverPremiums(Tail(plans), isTobacco)
       IN  IF p.metal_level = "Silver" /\ p.rate # NoRate
           THEN <<RatePremium(p.rate, isTobacco)>> \o rest
           ELSE rest

\* the default benchmark when no Silver plan has a rate
DEFAULT_BENCHMARK == 500

\* the benchmark without the `|| 500` default
FindBenchmark_NoDefault(plans, incomeVal, isTobacco) ==
  IF Truthy(incomeVal)
  THEN LET silverPlans == SortAscending(SilverPremiums(plans, isTobacco))
       IN  IF Len(silverPlans) >= 2 THEN silverPlans[2]
           ELSE IF Len(silverPlans) >= 1 THEN silverPlans[1]
           ELSE Null
  ELSE Null

\* let benchmarkPremium = null; if (incomeVal) { ... silverPlans[1] ... }
FindBenchmark(plans, incomeVal, isTobacco) ==
  IF Truthy(incomeVal)
  THEN LET silverPlans == SortAscending(SilverPremiums(plans, isTobacco))
       IN  IF Len(silverPlans) >= 2 THEN silverPlans[2]
           ELSE IF Len(silverPlans) >= 1 /\ Truthy(silverPlans[1]) THEN silverPlans[1]
           ELSE Int2Num(DEFAULT_BENCHMARK)
  ELSE Null

\* Math.max(0, Math.round(plan.monthly_premium - subsidyInfo.subsidy)) without the max
SubsidizedPremium_NoMax(monthly_premium, subsidy) ==
  Round(NSub(monthly_premium, Int2Num(subsidy)))

\* Math.max(0, Math.round(plan.monthly_premium - subsidyInfo.subsidy))
SubsidizedPremium(monthly_premium, subsidy) ==
  IntMax(0, Round(NSub(monthly_premium, Int2Num(subsidy))))

\* the body of `for (const plan of plans)`: the fields the loop sets on a plan
PricePlan(plan, isTobacco, info) ==
  IF plan.rate # NoRate
  THEN LET monthly_premium == RatePremium(plan.rate, isTobacco)
       IN  IF info # Null /\ info.eligible
           THEN [monthly_premium |-> monthly_premium,
                 subsidized_premium |-> SubsidizedPremium(monthly_premium, info.subsidy)]
                  @@ plan
           ELSE [monthly_premium |-> monthly_premium] @@ plan
  ELSE [monthly_premium |-> Null] @@ plan

PricePlans(plans, isTobacco, info) ==
  [k \in 1..Len(plans) |-> PricePlan(plans[k], isTobacco, info)]

\* x || Infinity
OrInfinity(x) == IF Truthy(x) THEN x ELSE Infinity

\* x || 0
OrZero(x) == IF Truthy(x) THEN x ELSE Int2Num(0)

\* getPremium with 0 for a plan without a premium
getPremium_NullFirst(plan, info) ==
  IF info # Null /\ info.eligible /\ "subsidized_premium" \in DOMAIN plan
  THEN Int2Num(plan.subsidized_premium)
  ELSE OrZero(plan.monthly_premium)

\* getPremium of the sort
getPremium(plan, info) ==
  IF info # Null /\ info.eligible /\ "subsidized_premium" \in DOMAIN plan
  THEN Int2Num(plan.subsidized_premium)
  ELSE OrInfinity(plan.monthly_premium)

\* the sign of x - y; Infinity - Infinity is NaN, which sort treats as 0
SignOfDifference(x, y) ==
  IF x = Infinity THEN (IF y = Infinity THEN 0 ELSE 1)
  ELSE IF y = Infinity THEN -1
  ELSE IF NLt(x, y) THEN -1
  ELSE IF NLt(y, x) THEN 1
  ELSE 0

\* the comparator of plans.sort
ComparePlans(a, b, sortOption, info) ==
  CASE sortOption = "price_asc" -> SignOfDifference(getPremium(a, info), getPremium(b, info))
    [] sortOption = "price_desc" -> SignOfDifference(getPremium(b, info), getPremium(a, info))
    [] sortOption = "deductible_asc" ->
         SignOfDifference(OrInfinity(Int2Num(a.medical_deductible_individual)),
                          OrInfinity(Int2Num(b.medical_deductible_individual)))
    [] sortOption = "deductible_desc" ->
         SignOfDifference(OrZero(Int2Num(b.medical_deductible_individual)),
                          OrZero(Int2Num(a.medical_deductible_individual)))
    [] sortOption = "oop_asc" ->
         SignOfDifference(OrInfinity(Int2Num(a.medical_moop_individual)),
                          OrInfinity(Int2Num(b.medical_moop_individual)))
    [] OTHER -> SignOfDifference(getPremium(a, info), getPremium(b, info))

\* insert plan behind every plan of sorted that does not compare greater
RECURSIVE InsertPlan(_, _, _, _)
InsertPlan(plan, sorted, sortOption, info) ==
  IF sorted = <<>> THEN <<plan>>
  ELSE LET last == sorted[Len(sorted)]
       IN  IF ComparePlans(last, plan, sortOption, info) > 0
           THEN InsertPlan(plan, SubSeq(sorted, 1, Len(sorted) - 1), sortOption, info)
                  \o <<last>>
           ELSE sorted \o <<plan>>

\* plans.sort(comparator): a stable sort
RECURSIVE SortPlans(_, _, _)
SortPlans(plans, sortOption, info) ==
  IF plans = <<>> THEN <<>>
  ELSE InsertPlan(plans[Len(plans)],
                  SortPlans(SubSeq(plans, 1, Len(plans) - 1), sortOption, info),
                  sortOption, info)

\* the estimateSubsidy of the route module that serves the route
RouteEstimate(route, income, householdSize, benchmarkPremium) ==
  IF route = "/plans (older)"
  THEN estimateSubsidyOld(income, householdSize, benchmarkPremium)
  ELSE estimateSubsidy(income, householdSize, benchmarkPremium)

\* GET /plan/:id for the plan row `plan` of the area
PlanResponse(plan, q) ==
  LET isTobacco      == q.tobacco = "on"
      incomeVal      == IF q.income # <<>> THEN parseInt(RemoveCommas(q.income)) ELSE Null
      householdSize  == IF q.household # <<>> THEN parseInt(q.household) ELSE JSNum(1)
      monthlyPremium == IF plan.rate # NoRate THEN RatePremium(plan.rate, isTobacco) ELSE Null
      benchmarkPremium ==
        IF Truthy(incomeVal) /\ Truthy(monthlyPremium)
        THEN IF plan.metal_level # "Silver"
             THEN NDivInt(NMulInt(115, monthlyPremium), 100)
             ELSE monthlyPremium
        ELSE Null
      subsidyInfo    == IF Truthy(incomeVal) /\ Truthy(monthlyPremium)
                        THEN estimateSubsidy(incomeVal.num, householdSize.num, benchmarkPremium)
                        ELSE Null
  IN  [view             |-> "plan",
       plans            |-> <<plan>>,
       incomeVal        |-> incomeVal,
       householdSize    |-> householdSize,
       monthlyPremium   |-> monthlyPremium,
       benchmarkPremium |-> benchmarkPremium,
       subsidyInfo      |-> subsidyInfo]

----------------------------------------------------------------------------
(* Bounds of the model *)

IncomeStep     == 50
MaxIncomeSteps == 1400
HighIncome     == 200000
ClampedSizes   == 2
MaxHousehold   == 4
MonoStep       == 1000
MonoLoSteps    == 15
MonoHiSteps    == 63
MonoHousehold  == 2
CurveDen       == 2
CurveStep      == 10
CurveLoSteps   == 9
CurveHiSteps   == 41
MaxPlans       == 3
MaxParamsGiven == 2
TotalSizes     == 3

\* annual incomes as parsed by parseInt: whole currency units
Incomes == {k * IncomeStep : k \in 0..MaxIncomeSteps} \cup {HighIncome}

\* household sizes as parsed by parseInt, ClampedSizes of them below 1
Households == (1 - ClampedSizes)..MaxHousehold

\* benchmark premiums as parsed by parseFloat: currency units and cents
BenchmarkCents == {0, 50000, 50040, 80000}
Cents(c) == Num(c \div 100, c % 100, 100)
Benchmarks == {Cents(c) : c \in BenchmarkCents}

MonoIncomes == {k * MonoStep : k \in MonoLoSteps..MonoHiSteps}
MonoHouseholds == 1..MonoHousehold
MonoBenchmarks == {Cents(20000), Cents(50040)}

\* the thresholds tested by getApplicablePercentage
Boundaries == {100, 133, 150, 200, 250, 300, 400}

\* arguments of getApplicablePercentage: every threshold, the points just
\* below and above it, and a coarse grid over the whole range
CurveArgs ==
  {Int2Num(b) : b \in Boundaries}
    \cup {Num(b - 1, CurveDen - 1, CurveDen) : b \in Boundaries}
    \cup {Num(b, 1, CurveDen) : b \in Boundaries}
    \cup {Int2Num(k * CurveStep) : k \in CurveLoSteps..CurveHiSteps}

\* the plan rows of one state and county with the rate row of the selected
\* age, in the order of the plan query (metal level, deductible, name)
PlanRows ==
  << [plan_id |-> "B1", metal_level |-> "Bronze", plan_type |-> "HMO",
      issuer_name |-> "A",
      medical_deductible_individual |-> 7000, medical_moop_individual |-> 9100,
      rate |-> [individual_rate |-> Cents(28000), individual_tobacco_rate |-> Null]],
     [plan_id |-> "S0", metal_level |-> "Silver", plan_type |-> "HMO",
      issuer_name |-> "B",
      medical_deductible_individual |-> 0, medical_moop_individual |-> 8500,
      rate |-> NoRate],
     [plan_id |-> "S1", metal_level |-> "Silver", plan_type |-> "PPO",
      issuer_name |-> "B",
      medical_deductible_individual |-> 2500, medical_moop_individual |-> 9000,
      rate |-> [individual_rate |-> Cents(42000),
                individual_tobacco_rate |-> Cents(51025)]],
     [plan_id |-> "S2", metal_level |-> "Silver", plan_type |-> "HMO",
      issuer_name |-> "A",
      medical_deductible_individual |-> 3000, medical_moop_individual |-> 8000,
      rate |-> [individual_rate |-> Cents(35050), individual_tobacco_rate |-> Null]] >>

\* the rows of PlanRows at the positions in S, in order
RowsAt(S) ==
  LET f[k \in 0..Len(PlanRows)] ==
        IF k = 0 THEN <<>>
        ELSE IF k \in S THEN Append(f[k - 1], PlanRows[k]) ELSE f[k - 1]
  IN  f[Len(PlanRows)]

\* what the plans table may hold for the requested state and county
AreaPlanLists ==
  {RowsAt(S) : S \in {T \in SUBSET (1..Len(PlanRows)) : Cardinality(T) <= MaxPlans}}

\* query parameters; "" and <<>> stand for a parameter that is not given
Routes == {"/plans", "/plans (older)", "/plan/:id"}
QueryMetals == {"", "all", "Silver", "Bronze"}
QueryTypes == {"", "HMO"}
QueryIssuers == {"", "A"}
QueryTobaccos == {"", "on"}
QuerySorts == {"", "price_asc", "price_desc", "deductible_asc", "deductible_desc",
               "oop_asc", "name"}
QueryIncomes == { <<>>, <<"0">>, <<"a", "b", "c">>,
                  <<"3", "0", ",", "0", "0", "0">>, <<"-", "5", "0", "0", "0">> }
QueryHouseholds == { <<>>, <<"2">> }

\* the number of filter and sort parameters a query gives
ParamsGiven(q) ==
  (IF q.metal # "" THEN 1 ELSE 0) + (IF q.type # "" THEN 1 ELSE 0)
    + (IF q.issuer # "" THEN 1 ELSE 0) + (IF q.sort # "" THEN 1 ELSE 0)

\* requests that name a state and a county; id is the position in the plans
\* table of the plan that /plan/:id asks for, 0 for the list routes
Requests ==
  {q \in [route : Routes, id : 0..MaxPlans,
          metal : QueryMetals, type : QueryTypes, issuer : QueryIssuers,
          tobacco : QueryTobaccos, sort : QuerySorts,
          income : QueryIncomes, household : QueryHouseholds] :
     IF q.route = "/plan/:id"
     THEN q.id >= 1 /\ ParamsGiven(q) = 0
     ELSE q.id = 0 /\ ParamsGiven(q) <= MaxParamsGiven}

\* arguments outside the range a marketplace household has
TotalIncomes == {-60000, -1, 0, 1, 20000, 70000}
TotalHouseholds == (0 - TotalSizes)..TotalSizes
TotalBenchmarks == {Cents(-10050), Cents(0), Cents(50040)}

----------------------------------------------------------------------------
(* State *)

VARIABLES
  income,             \* incomeVal of the request being served
  householdSize,      \* householdSize of the request
  benchmarkPremium,   \* benchmark premium found for the request
  subsidyInfo,        \* result of the 2026 estimateSubsidy, Pending before the call
  subsidyInfoOld,     \* result of the older estimateSubsidy, Pending before the call
  prevIncome,         \* income of the previous request of the same household (0: none)
  prevInfo,           \* its 2026 result
  prevInfoOld,        \* its older-variant result
  fplArg,             \* argument of a getApplicablePercentage call
  applicablePercent,  \* its return value, Pending before the call
  prevArg,            \* argument of the previous call
  prevPercent,        \* return value of the previous call
  areaPlans,          \* rows of the plans table for the requested state and county
  request,            \* route and query of the request being handled
  response,           \* what the handler renders, Pending before it ran
  prevRequest,        \* the previous request of the same user, Pending if none
  prevResponse,       \* what was rendered for it
  selectedPlans,      \* app.js: plan ids in the selectedPlans set
  checkedBoxes,       \* app.js: compare checkboxes that are checked
  compareAlert,       \* app.js: the last change event raised the alert
  compare,            \* ids and planIds of a /compare request, Pending before it
  zipInput,           \* app.js: value of the zip code input
  isLookingUp,        \* app.js: isLookingUp
  lastLookedUpZip,    \* app.js: lastLookedUpZip
  debounceTimer,      \* app.js: zip of the pending 300 ms timer
  inFlight,           \* app.js: zips of the fetches that have not completed
  stepTimers,         \* app.js: pending 500 ms step transitions
  step,               \* app.js: the wizard step that is active
  currentState,       \* app.js: currentState, as the zip it was read from
  currentCounty,      \* app.js: currentCounty, as the zip it was read from
  stateZip,           \* app.js: zip whose state is in the state-hidden field
  countyZip,          \* app.js: zip whose counties are in the county select
  hasMultipleCounties, \* app.js: hasMultipleCounties
  locationInfo,       \* app.js: what the location-info element shows
  failedZip,          \* zip whose last lookup ended in a failure message
  retried             \* the user entered failedZip again after the failure

vars == <<income, householdSize, benchmarkPremium, subsidyInfo, subsidyInfoOld,
          prevIncome, prevInfo, prevInfoOld,
          fplArg, applicablePercent, prevArg, prevPercent,
          areaPlans, request, response, prevRequest, prevResponse,
          selectedPlans, checkedBoxes, compareAlert, compare,
          zipInput, isLookingUp, lastLookedUpZip, debounceTimer, inFlight,
          stepTimers, step, currentState, currentCounty, stateZip, countyZip,
          hasMultipleCounties, locationInfo, failedZip, retried>>

requestVars == <<income, householdSize, benchmarkPremium>>
prevVars    == <<prevIncome, prevInfo, prevInfoOld>>
curveVars   == <<fplArg, applicablePercent, prevArg, prevPercent>>
handlerVars == <<areaPlans, request, response, prevRequest, prevResponse>>
compareVars == <<selectedPlans, checkedBoxes, compareAlert, compare>>
wizardVars  == <<zipInput, isLookingUp, lastLookedUpZip, debounceTimer, inFlight,
                 stepTimers, step, currentState, currentCounty, stateZip,
                 countyZip, hasMultipleCounties, locationInfo, failedZip,
                 retried>>
clientVars  == <<compareVars, wizardVars>>
serverVars  == <<requestVars, subsidyInfo, subsidyInfoOld, prevVars, curveVars,
                 handlerVars>>

\* no value yet
Pending == [pending |-> TRUE]

CurveIdle ==
  /\ fplArg = Pending
  /\ applicablePercent = Pending
  /\ prevArg = Pending
  /\ prevPercent = Pending

HandlerIdle ==
  /\ areaPlans = <<>>
  /\ request = Pending
  /\ response = Pending
  /\ prevRequest = Pending
  /\ prevResponse = Pending

\* the plans page as loaded: nothing selected, no /compare request
CompareIdle ==
  /\ selectedPlans = {}
  /\ checkedBoxes = {}
  /\ compareAlert = FALSE
  /\ compare = Pending

\* the wizard as loaded by DOMContentLoaded; <<>> stands for null, for an
\* empty input and for a timer that is not set
WizardIdle ==
  /\ zipInput = <<>>
  /\ isLookingUp = FALSE
  /\ lastLookedUpZip = <<>>
  /\ debounceTimer = <<>>
  /\ inFlight = <<>>
  /\ stepTimers = {}
  /\ step = "zip"
  /\ currentState = <<>>
  /\ currentCounty = <<>>
  /\ stateZip = <<>>
  /\ countyZip = <<>>
  /\ hasMultipleCounties = FALSE
  /\ locationInfo = ""
  /\ failedZip = <<>>
  /\ retried = FALSE

ClientIdle == CompareIdle /\ WizardIdle

EstimatorIdle ==
  /\ income = 0
  /\ householdSize = 1
  /\ benchmarkPremium = Pending
  /\ subsidyInfo = Pending
  /\ subsidyInfoOld = Pending
  /\ prevIncome = 0
  /\ prevInfo = Pending
  /\ prevInfoOld = Pending

----------------------------------------------------------------------------
(* Calls of estimateSubsidy *)

Init ==
  /\ income \in Incomes
  /\ householdSize \in Households
  /\ benchmarkPremium \in Benchmarks
  /\ subsidyInfo = Pending
  /\ subsidyInfoOld = Pending
  /\ prevIncome = 0
  /\ prevInfo = Pending
  /\ prevInfoOld = Pending
  /\ CurveIdle
  /\ HandlerIdle
  /\ ClientIdle

\* subsidyInfo = estimateSubsidy(incomeVal, householdSize, benchmarkPremium)
CallEstimateSubsidy ==
  /\ benchmarkPremium # Pending
  /\ subsidyInfo = Pending
  /\ subsidyInfo' = estimateSubsidy(income, householdSize, benchmarkPremium)
  /\ UNCHANGED <<requestVars, subsidyInfoOld, prevVars, curveVars, handlerVars, clientVars>>

\* the same call in the older route module
CallEstimateSubsidyOld ==
  /\ benchmarkPremium # Pending
  /\ subsidyInfoOld = Pending
  /\ subsidyInfoOld' = estimateSubsidyOld(income, householdSize, benchmarkPremium)
  /\ UNCHANGED <<requestVars, subsidyInfo, prevVars, curveVars, handlerVars, clientVars>>

Next == CallEstimateSubsidy \/ CallEstimateSubsidyOld

Spec == Init /\ [][Next]_vars

----------------------------------------------------------------------------
(* Two requests of one household that differ in income only *)

InitMono ==
  /\ income \in MonoIncomes
  /\ householdSize \in MonoHouseholds
  /\ benchmarkPremium \in MonoBenchmarks
  /\ subsidyInfo = Pending
  /\ subsidyInfoOld = Pending
  /\ prevIncome = 0
  /\ prevInfo = Pending
  /\ prevInfoOld = Pending
  /\ CurveIdle
  /\ HandlerIdle
  /\ ClientIdle

\* a second request with another income, once the first was answered
Resubmit(i) ==
  /\ subsidyInfo # Pending
  /\ subsidyInfoOld # Pending
  /\ prevInfo = Pending
  /\ prevIncome' = income
  /\ prevInfo' = subsidyInfo
  /\ prevInfoOld' = subsidyInfoOld
  /\ income' = i
  /\ subsidyInfo' = Pending
  /\ subsidyInfoOld' = Pending
  /\ UNCHANGED <<householdSize, benchmarkPremium, curveVars, handlerVars, clientVars>>

NextMono ==
  \/ CallEstimateSubsidy
  \/ CallEstimateSubsidyOld
  \/ \E i \in MonoIncomes : Resubmit(i)

SpecMono == InitMono /\ [][NextMono]_vars

----------------------------------------------------------------------------
(* Calls of getApplicablePercentage *)

InitCurve ==
  /\ EstimatorIdle
  /\ HandlerIdle
  /\ ClientIdle
  /\ fplArg \in CurveArgs
  /\ applicablePercent = Pending
  /\ prevArg = Pending
  /\ prevPercent = Pending

\* applicablePercent = getApplicablePercentage(fplPercent)
CallGetApplicablePercentage ==
  /\ fplArg # Pending
  /\ applicablePercent = Pending
  /\ applicablePercent' = getApplicablePercentage(fplArg)
  /\ UNCHANGED <<requestVars, subsidyInfo, subsidyInfoOld, prevVars,
                 fplArg, prevArg, prevPercent, handlerVars, clientVars>>

\* a second call with another argument
NextArg(a) ==
  /\ applicablePercent # Pending
  /\ prevArg = Pending
  /\ prevArg' = fplArg
  /\ prevPercent' = applicablePercent
  /\ fplArg' = a
  /\ applicablePercent' = Pending
  /\ UNCHANGED <<requestVars, subsidyInfo, subsidyInfoOld, prevVars, handlerVars, clientVars>>

NextCurve ==
  \/ CallGetApplicablePercentage
  \/ \E a \in CurveArgs : NextArg(a)

SpecCurve == InitCurve /\ [][NextCurve]_vars

----------------------------------------------------------------------------
(* The contribution rate of the older estimateSubsidy *)

\* arguments from 0 to beyond the 400% threshold
CurveArgsOld ==
  CurveArgs
    \cup {Int2Num(k * CurveStep) : k \in 0..CurveLoSteps}
    \cup {Int2Num(k * CurveStep) : k \in CurveHiSteps..(CurveHiSteps + CurveLoSteps)}

InitCurveOld ==
  /\ EstimatorIdle
  /\ HandlerIdle
  /\ ClientIdle
  /\ fplArg \in CurveArgsOld
  /\ applicablePercent = Pending
  /\ prevArg = Pending
  /\ prevPercent = Pending

\* the rate the older estimateSubsidy applies at fplPercent
CallContributionRateOld ==
  /\ fplArg # Pending
  /\ applicablePercent = Pending
  /\ applicablePercent' = contributionRateOld(fplArg)
  /\ UNCHANGED <<requestVars, subsidyInfo, subsidyInfoOld, prevVars,
                 fplArg, prevArg, prevPercent, handlerVars, clientVars>>

NextCurveOld ==
  \/ CallContributionRateOld
  \/ \E a \in CurveArgsOld : NextArg(a)

SpecCurveOld == InitCurveOld /\ [][NextCurveOld]_vars

----------------------------------------------------------------------------
(* Calls of estimateSubsidy with arguments of any sign *)

InitTotal ==
  /\ income \in TotalIncomes
  /\ householdSize \in TotalHouseholds
  /\ benchmarkPremium \in TotalBenchmarks
  /\ subsidyInfo = Pending
  /\ subsidyInfoOld = Pending
  /\ prevIncome = 0
  /\ prevInfo = Pending
  /\ prevInfoOld = Pending
  /\ CurveIdle
  /\ HandlerIdle
  /\ ClientIdle

SpecTotal == InitTotal /\ [][Next]_vars

----------------------------------------------------------------------------
(* The route handlers *)

InitPlans ==
  /\ EstimatorIdle
  /\ CurveIdle
  /\ areaPlans \in AreaPlanLists
  /\ request \in Requests
  /\ response = Pending
  /\ prevRequest = Pending
  /\ prevResponse = Pending
  /\ ClientIdle

\* the body of router.get('/plans'), the same statements in both route
\* modules: each constant of the handler is bound in turn, then the view is
\* rendered with the sorted plans
RenderPlans ==
  \E plans \in {FilterPlans(areaPlans, request.metal, request.type, request.issuer)} :
  \E isTobacco \in {request.tobacco = "on"} :
  \E incomeVal \in {IF request.income # <<>>
                    THEN parseInt(RemoveCommas(request.income)) ELSE Null} :
  \E size \in {IF request.household # <<>>
               THEN parseInt(request.household) ELSE JSNum(1)} :
  \E benchmark \in {FindBenchmark(plans, incomeVal, isTobacco)} :
  \E info \in {IF Truthy(incomeVal) /\ Truthy(benchmark)
               THEN RouteEstimate(request.route, incomeVal.num, size.num, benchmark)
               ELSE Null} :
  \E priced \in {PricePlans(plans, isTobacco, info)} :
  \E sortOption \in {IF request.sort # "" THEN request.sort ELSE "price_asc"} :
    response' = [view             |-> "plans",
                 plans            |-> SortPlans(priced, sortOption, info),
                 incomeVal        |-> incomeVal,
                 householdSize    |-> size,
                 benchmarkPremium |-> benchmark,
                 subsidyInfo      |-> info,
                 sortOption       |-> sortOption]

\* router.get('/plans') of src/db/import.js
GetPlans ==
  /\ request # Pending
  /\ request.route = "/plans"
  /\ response = Pending
  /\ RenderPlans
  /\ UNCHANGED <<requestVars, subsidyInfo, subsidyInfoOld, prevVars, curveVars,
                 areaPlans, request, prevRequest, prevResponse, clientVars>>

\* router.get('/plans') of src/routes/plans.js
GetPlansOld ==
  /\ request # Pending
  /\ request.route = "/plans (older)"
  /\ response = Pending
  /\ RenderPlans
  /\ UNCHANGED <<requestVars, subsidyInfo, subsidyInfoOld, prevVars, curveVars,
                 areaPlans, request, prevRequest, prevResponse, clientVars>>

\* router.get('/plan/:id') of src/db/import.js
GetPlan ==
  /\ request # Pending
  /\ request.route = "/plan/:id"
  /\ response = Pending
  /\ response' = IF request.id <= Len(areaPlans)
                 THEN PlanResponse(areaPlans[request.id], request)
                 ELSE [view |-> "error", message |-> "Plan not found"]
  /\ UNCHANGED <<requestVars, subsidyInfo, subsidyInfoOld, prevVars, curveVars,
                 areaPlans, request, prevRequest, prevResponse, clientVars>>

NextPlans == GetPlans \/ GetPlansOld \/ GetPlan

SpecPlans == InitPlans /\ [][NextPlans]_vars

----------------------------------------------------------------------------
(* Two list requests of one household that differ in the filters only *)

\* list requests with an income, in the default order
FilterRequests ==
  {q \in Requests : /\ q.route # "/plan/:id"
                    /\ q.sort = ""
                    /\ q.income = <<"3", "0", ",", "0", "0", "0">>}

InitFilters ==
  /\ EstimatorIdle
  /\ CurveIdle
  /\ areaPlans \in AreaPlanLists
  /\ request \in FilterRequests
  /\ response = Pending
  /\ prevRequest = Pending
  /\ prevResponse = Pending
  /\ ClientIdle

\* the user changes the metal, type and issuer filters of the answered
\* request and submits the form again
Refilter(metal, type, issuer) ==
  /\ response # Pending
  /\ prevResponse = Pending
  /\ [request EXCEPT !.metal = metal, !.type = type, !.issuer = issuer]
       \in FilterRequests
  /\ prevRequest' = request
  /\ prevResponse' = response
  /\ request' = [request EXCEPT !.metal = metal, !.type = type, !.issuer = issuer]
  /\ response' = Pending
  /\ UNCHANGED <<requestVars, subsidyInfo, subsidyInfoOld, prevVars, curveVars,
                 areaPlans, clientVars>>

NextFilters ==
  \/ GetPlans
  \/ GetPlansOld
  \/ \E metal \in QueryMetals, type \in QueryTypes, issuer \in QueryIssuers :
       Refilter(metal, type, issuer)

SpecFilters == InitFilters /\ [][NextFilters]_vars

----------------------------------------------------------------------------
(* Plan comparison: the compare checkboxes of the plans page (app.js) and
   the /compare handlers (import.js, plans.js, pdf.js) *)

\* selectedPlans.size >= 4
MAX_SELECTED == 4

\* ids.split(',').slice(0, 4)
COMPARE_SLICE == 4

MaxCheckboxes == 5
MaxIdsLen == 4

\* the compare checkboxes of a plans page; the plans query is SELECT DISTINCT,
\* so each checkbox carries its own plan id as value
Checkboxes == 1..MaxCheckboxes
ValueOf(checkbox) == checkbox

\* the characters of an ids parameter: a plan id character and the separator
IdChars == {"a", ","}

\* req.query.ids as a string: <<>> is the missing or empty parameter
IdsStrings == UNION {[1..n -> IdChars] : n \in 0..MaxIdsLen}

\* req.query.ids: a string, or an array or object (which has no split
\* method) when the query string repeats the key or nests it
IdsValues ==
  {[isString |-> TRUE, text |-> s] : s \in IdsStrings}
    \cup {[isString |-> FALSE, text |-> <<>>]}

CompareRoutes == {"/compare", "/compare (older)", "/pdf/compare"}

\* String.prototype.split(',')
RECURSIVE Split(_)
Split(s) ==
  IF \A i \in 1..Len(s) : s[i] # ","
    THEN <<s>>
    ELSE LET i == CHOOSE k \in 1..Len(s) :
                    s[k] = "," /\ \A j \in 1..(k - 1) : s[j] # ","
         IN  <<SubSeq(s, 1, i - 1)>> \o Split(SubSeq(s, i + 1, Len(s)))

\* Array.prototype.slice(0, end)
Slice_Whole(list, end) == list
Slice(list, end) == SubSeq(list, 1, IF Len(list) < end THEN Len(list) ELSE end)

\* the change handler without the size test
Change_NoLimit(checkbox) ==
  /\ compareAlert' = FALSE
  /\ IF checkbox \notin checkedBoxes
       THEN /\ selectedPlans' = selectedPlans \cup {ValueOf(checkbox)}
            /\ checkedBoxes' = checkedBoxes \cup {checkbox}
       ELSE /\ selectedPlans' = selectedPlans \ {ValueOf(checkbox)}
            /\ checkedBoxes' = checkedBoxes \ {checkbox}
  /\ UNCHANGED <<serverVars, compare, wizardVars>>

\* the user clicks a compare checkbox: the browser flips it, then the change
\* handler runs; updateCompareBar only redraws the count and the link from
\* selectedPlans
Change(checkbox) ==
  /\ IF checkbox \notin checkedBoxes
       THEN IF Cardinality(selectedPlans) >= MAX_SELECTED
              THEN /\ checkedBoxes' = checkedBoxes \ {checkbox}
                   /\ compareAlert' = TRUE
                   /\ UNCHANGED selectedPlans
              ELSE /\ selectedPlans' = selectedPlans \cup {ValueOf(checkbox)}
                   /\ checkedBoxes' = checkedBoxes \cup {checkbox}
                   /\ compareAlert' = FALSE
       ELSE /\ selectedPlans' = selectedPlans \ {ValueOf(checkbox)}
            /\ checkedBoxes' = checkedBoxes \ {checkbox}
            /\ compareAlert' = FALSE
  /\ UNCHANGED <<serverVars, compare, wizardVars>>

\* a /compare handler up to its plans query: planIds are the ids it queries
CompareRequest(route, ids, rejection) ==
  /\ compare' =
       IF ~ids.isString
         THEN [route |-> route, ids |-> ids.text, status |-> "error",
               planIds |-> <<>>]
       ELSE IF ids.text = <<>>
         THEN [route |-> route, ids |-> ids.text, status |-> rejection,
               planIds |-> <<>>]
       ELSE [route |-> route, ids |-> ids.text, status |-> "query",
             planIds |-> Slice(Split(ids.text), COMPARE_SLICE)]
  /\ UNCHANGED <<serverVars, selectedPlans, checkedBoxes, compareAlert,
                 wizardVars>>

GetCompare == \E ids \in IdsValues : CompareRequest("/compare", ids, "redirect")

GetCompareOld ==
  \E ids \in IdsValues : CompareRequest("/compare (older)", ids, "redirect")

GetComparePdf ==
  \E ids \in IdsValues : CompareRequest("/pdf/compare", ids, "400")

InitCompare ==
  /\ EstimatorIdle
  /\ CurveIdle
  /\ HandlerIdle
  /\ ClientIdle

NextCompare ==
  \/ \E checkbox \in Checkboxes : Change(checkbox)
  \/ GetCompare
  \/ GetCompareOld
  \/ GetComparePdf

SpecCompare == InitCompare /\ [][NextCompare]_vars

----------------------------------------------------------------------------
(* The zip code wizard of the start page (app.js).  Each handler runs to
   completion; lookupZipCode runs up to its await, and the rest of it runs
   when the fetch settles.  A step's controls are used while it is active. *)

MaxZips == 2

\* the last digits of the zip codes the user enters
ZipLastDigit == <<"1", "2", "3", "4", "5", "6", "7", "8", "9">>

ZipCode(i) == <<"9", "0", "2", "1", ZipLastDigit[i]>>
ZipCodes == {ZipCode(i) : i \in 1..MaxZips}

\* what an input event can leave in the field: nothing, four digits, a zip
\* code, and a zip code with a character that is no digit
TypedValues ==
  {<<>>, <<"9", "0", "2", "1">>}
    \cup ZipCodes
    \cup {<<"9", "0", "-", "2", "1", ZipLastDigit[i]>> : i \in 1..MaxZips}

\* value.replace(/\D/g, '')
StripNonDigits(value) == SelectSeq(value, LAMBDA c : c \in DigitChars)

\* how a fetch of /api/zipcode settles
Outcomes ==
  {"throw", "notFound", "message", "empty", "malformed", "single", "multiple"}

RemoveAt(list, i) == SubSeq(list, 1, i - 1) \o SubSeq(list, i + 1, Len(list))

\* lookupZipCode without the isLookingUp test
lookupZipCode_NoGuard(zip) ==
  /\ isLookingUp' = TRUE
  /\ lastLookedUpZip' = zip
  /\ locationInfo' = "loading"
  /\ inFlight' = Append(inFlight, zip)
  /\ failedZip' = <<>>
  /\ retried' = FALSE

\* lookupZipCode(zip) up to the await of fetch
lookupZipCode(zip) ==
  IF isLookingUp
    THEN UNCHANGED <<isLookingUp, lastLookedUpZip, locationInfo, inFlight,
                     failedZip, retried>>
    ELSE /\ isLookingUp' = TRUE
         /\ lastLookedUpZip' = zip
         /\ locationInfo' = "loading"
         /\ inFlight' = Append(inFlight, zip)
         /\ failedZip' = <<>>
         /\ retried' = FALSE

\* the input handler of the zip field
Input(typed) ==
  /\ step = "zip"
  /\ \E zip \in {StripNonDigits(typed)} :
       /\ zipInput' = zip
       /\ locationInfo' = ""
       /\ currentState' = <<>>
       /\ currentCounty' = <<>>
       /\ debounceTimer' = IF Len(zip) = 5 /\ zip # lastLookedUpZip
                              THEN zip ELSE <<>>
       /\ retried' = (retried \/ (failedZip # <<>> /\ zip = failedZip))
  /\ UNCHANGED <<serverVars, compareVars, isLookingUp, lastLookedUpZip,
                 inFlight, stepTimers, step, stateZip, countyZip,
                 hasMultipleCounties, failedZip>>

\* the keydown handler of the zip field, for the Enter key
Enter ==
  /\ step = "zip"
  /\ \E zip \in {StripNonDigits(zipInput)} :
       IF Len(zip) # 5 \/ zip = lastLookedUpZip \/ isLookingUp
         THEN /\ retried' = (retried \/ (failedZip # <<>> /\ zip = failedZip))
              /\ UNCHANGED <<isLookingUp, lastLookedUpZip, locationInfo,
                             inFlight, failedZip, debounceTimer>>
         ELSE /\ debounceTimer' = <<>>
              /\ lookupZipCode(zip)
  /\ UNCHANGED <<serverVars, compareVars, zipInput, stepTimers, step,
                 currentState, currentCounty, stateZip, countyZip,
                 hasMultipleCounties>>

\* the 300 ms timer of the input handler fires
DebounceFire ==
  /\ debounceTimer # <<>>
  /\ debounceTimer' = <<>>
  /\ lookupZipCode(debounceTimer)
  /\ UNCHANGED <<serverVars, compareVars, zipInput, stepTimers, step,
                 currentState, currentCounty, stateZip, countyZip,
                 hasMultipleCounties>>

\* the stale return without the reset of isLookingUp
StaleReturn_KeepsFlag ==
  UNCHANGED <<isLookingUp, locationInfo, stepTimers, currentState,
              currentCounty, stateZip, countyZip, hasMultipleCounties,
              failedZip, retried>>

\* the zip changed while the fetch was under way
StaleReturn ==
  /\ isLookingUp' = FALSE
  /\ UNCHANGED <<locationInfo, stepTimers, currentState, currentCounty,
                 stateZip, countyZip, hasMultipleCounties, failedZip, retried>>

\* a lookup ends with a message and no step transition
Failure(zip, message) ==
  /\ locationInfo' = message
  /\ isLookingUp' = FALSE
  /\ failedZip' = zip
  /\ retried' = FALSE
  /\ UNCHANGED <<stepTimers, currentCounty, countyZip, hasMultipleCounties>>

\* a lookup found counties: the form is filled and the step transition is
\* set 500 ms ahead
Found(zip, next, multiple) ==
  /\ currentState' = zip
  /\ stateZip' = zip
  /\ currentCounty' = IF multiple THEN currentCounty ELSE zip
  /\ hasMultipleCounties' = multiple
  /\ countyZip' = zip
  /\ locationInfo' = "success"
  /\ stepTimers' = stepTimers \cup {[step |-> next, zip |-> zip]}
  /\ UNCHANGED <<isLookingUp, failedZip, retried>>

\* lookupZipCode from the await of fetch on, for the i-th fetch under way
CompleteFetch(i, outcome) ==
  /\ i \in 1..Len(inFlight)
  /\ inFlight' = RemoveAt(inFlight, i)
  /\ \E zip \in {inFlight[i]} :
       CASE outcome = "throw" ->
              Failure(zip, "error") /\ UNCHANGED <<currentState, stateZip>>
         [] outcome # "throw" /\ zipInput # zip -> StaleReturn
         [] outcome = "notFound" /\ zipInput = zip ->
              Failure(zip, "notFound") /\ UNCHANGED <<currentState, stateZip>>
         [] outcome = "message" /\ zipInput = zip ->
              Failure(zip, "message") /\ UNCHANGED <<currentState, stateZip>>
         [] outcome = "empty" /\ zipInput = zip ->
              /\ Failure(zip, "noPlans")
              /\ currentState' = zip
              /\ stateZip' = zip
         [] outcome = "malformed" /\ zipInput = zip ->
              /\ Failure(zip, "error")
              /\ currentState' = zip
              /\ stateZip' = zip
         [] outcome = "single" /\ zipInput = zip ->
              Found(zip, "household", FALSE)
         [] outcome = "multiple" /\ zipInput = zip ->
              Found(zip, "county", TRUE)
  /\ UNCHANGED <<serverVars, compareVars, zipInput, lastLookedUpZip,
                 debounceTimer, step>>

\* the 500 ms timer of a found zip fires
TransitionFire(timer) ==
  /\ timer \in stepTimers
  /\ stepTimers' = stepTimers \ {timer}
  /\ step' = timer.step
  /\ isLookingUp' = FALSE
  /\ UNCHANGED <<serverVars, compareVars, zipInput, lastLookedUpZip,
                 debounceTimer, inFlight, currentState, currentCounty,
                 stateZip, countyZip, hasMultipleCounties, locationInfo,
                 failedZip, retried>>

\* the change handler of the county select: a county or the empty option
CountyChange(value) ==
  /\ step = "county"
  /\ IF value # <<>>
       THEN currentCounty' = value /\ step' = "household"
       ELSE UNCHANGED <<currentCounty, step>>
  /\ UNCHANGED <<serverVars, compareVars, zipInput, isLookingUp,
                 lastLookedUpZip, debounceTimer, inFlight, stepTimers,
                 currentState, stateZip, countyZip, hasMultipleCounties,
                 locationInfo, failedZip, retried>>

BackToZip ==
  /\ step = "county"
  /\ lastLookedUpZip' = <<>>
  /\ step' = "zip"
  /\ UNCHANGED <<serverVars, compareVars, zipInput, isLookingUp,
                 debounceTimer, inFlight, stepTimers, currentState,
                 currentCounty, stateZip, countyZip, hasMultipleCounties,
                 locationInfo, failedZip, retried>>

BackToCounty ==
  /\ step = "household"
  /\ IF hasMultipleCounties
       THEN step' = "county" /\ UNCHANGED lastLookedUpZip
       ELSE lastLookedUpZip' = <<>> /\ step' = "zip"
  /\ UNCHANGED <<serverVars, compareVars, zipInput, isLookingUp,
                 debounceTimer, inFlight, stepTimers, currentState,
                 currentCounty, stateZip, countyZip, hasMultipleCounties,
                 locationInfo, failedZip, retried>>

NextToAge ==
  /\ step = "household"
  /\ step' = "age"
  /\ UNCHANGED <<serverVars, compareVars, zipInput, isLookingUp,
                 lastLookedUpZip, debounceTimer, inFlight, stepTimers,
                 currentState, currentCounty, stateZip, countyZip,
                 hasMultipleCounties, locationInfo, failedZip, retried>>

BackBtn ==
  /\ step = "age"
  /\ step' = "household"
  /\ UNCHANGED <<serverVars, compareVars, zipInput, isLookingUp,
                 lastLookedUpZip, debounceTimer, inFlight, stepTimers,
                 currentState, currentCounty, stateZip, countyZip,
                 hasMultipleCounties, locationInfo, failedZip, retried>>

InitWizard ==
  /\ EstimatorIdle
  /\ CurveIdle
  /\ HandlerIdle
  /\ ClientIdle

Settle == \E i \in 1..Len(inFlight), outcome \in Outcomes : CompleteFetch(i, outcome)
Transition == \E timer \in stepTimers : TransitionFire(timer)

NextWizard ==
  \/ \E typed \in TypedValues : Input(typed)
  \/ Enter
  \/ DebounceFire
  \/ Settle
  \/ Transition
  \/ \E value \in {<<>>, countyZip} : CountyChange(value)
  \/ BackToZip
  \/ BackToCounty
  \/ NextToAge
  \/ BackBtn

SpecWizard == InitWizard /\ [][NextWizard]_vars

\* the browser runs a timer that is due and settles every fetch
SpecWizardLive ==
  /\ InitWizard
  /\ [][NextWizard]_vars
  /\ WF_vars(DebounceFire)
  /\ WF_vars(Settle)
  /\ WF_vars(Transition)

----------------------------------------------------------------------------
(* Reference values the properties compare the results with *)

\* round(n / d) for n >= 0, d > 0, in integers
RoundRatio(n, d) == (2 * n + d) \div (2 * d)

\* the unrounded fplPercent lies in [100, 400]
InRange(i, h) == getFPL(h) <= i /\ i <= 4 * getFPL(h)
InRangeOld(i, h) == getFPLOld(h) <= i /\ i <= 4 * getFPLOld(h)

\* the band table of the 2026 contribution curve, percentages in 1/10000
BandTable ==
  << [lo |-> 100, hi |-> 133, cLo |-> 210, cHi |-> 210],
     [lo |-> 133, hi |-> 150, cLo |-> 314, cHi |-> 419],
     [lo |-> 150, hi |-> 200, cLo |-> 419, cHi |-> 660],
     [lo |-> 200, hi |-> 250, cLo |-> 660, cHi |-> 844],
     [lo |-> 250, hi |-> 300, cLo |-> 844, cHi |-> 996],
     [lo |-> 300, hi |-> 400, cLo |-> 996, cHi |-> 996] >>

\* cLo + ((fplPercent - lo) / (hi - lo)) * (cHi - cLo)
Interp(band, fp) ==
  NAdd(Dec(band.cLo, 10000),
       NMul(NDivInt(NSub(fp, Int2Num(band.lo)), band.hi - band.lo),
            Dec(band.cHi - band.cLo, 10000)))

\* the band that owns fp: lo < fp <= hi, the first band also owning 100
Owns(band, fp) ==
  /\ NLe(fp, Int2Num(band.hi))
  /\ \/ NLt(Int2Num(band.lo), fp)
     \/ band.lo = 100 /\ fp = Int2Num(100)

RefPercent(fp) ==
  Interp(BandTable[CHOOSE k \in 1..Len(BandTable) : Owns(BandTable[k], fp)], fp)

\* income * applicablePercent / 12 from the unrounded fplPercent
RefContribution(i, h) ==
  NDivInt(NMulInt(i, RefPercent(Num(0, 100 * i, getFPL(h)))), 12)

Called == subsidyInfo # Pending
CalledOld == subsidyInfoOld # Pending
Looked == applicablePercent # Pending
ArgInRange(a) == NLe(Int2Num(100), a) /\ NLe(a, Int2Num(400))

----------------------------------------------------------------------------
(* Properties *)

\* C1: neither variant of estimateSubsidy returns a negative subsidy or a
\* negative monthlyContribution (where the result carries one), for every
\* income >= 0, every household size and every benchmark >= 0.
C1_NonNegative ==
  /\ Called => subsidyInfo.subsidy >= 0 /\ subsidyInfo.monthlyContribution >= 0
  /\ CalledOld =>
       /\ subsidyInfoOld.subsidy >= 0
       /\ "monthlyContribution" \in DOMAIN subsidyInfoOld
            => subsidyInfoOld.monthlyContribution >= 0

\* a request whose contribution exceeds the benchmark in both variants
C1_Witness ==
  /\ Called /\ CalledOld
  /\ "monthlyContribution" \in DOMAIN subsidyInfoOld
  /\ subsidyInfo.eligible
  /\ Round(benchmarkPremium) < subsidyInfo.monthlyContribution
  /\ Round(benchmarkPremium) < subsidyInfoOld.monthlyContribution
  /\ subsidyInfo.subsidy = 0 /\ subsidyInfoOld.subsidy = 0

\* C2: in the 2026 variant getApplicablePercentage returns the sentinel
\* exactly when fplPercent < 100 or fplPercent > 400, and estimateSubsidy
\* answers eligible exactly when the unrounded fplPercent is in [100, 400].
C2_EligibleIffInRange ==
  Called =>
    /\ (getApplicablePercentage(getFPLPercent(income, householdSize)) = Null)
         <=> (income < getFPL(householdSize) \/ income > 4 * getFPL(householdSize))
    /\ subsidyInfo.eligible <=> InRange(income, householdSize)

\* an income at exactly 400% of the poverty level, found eligible
C2_Witness ==
  /\ Called
  /\ income = 4 * getFPL(householdSize)
  /\ subsidyInfo.eligible
  /\ subsidyInfo.fplPercent = 400

\* C3: in the 2026 variant a household that is not eligible gets subsidy 0,
\* eligible false, the rounded fplPercent, and a contribution of 0 below
\* 100% and of round(benchmarkPremium) above 400%; (10000, 1, 500) gives 0
\* and (200000, 1, 500) gives 500.
C3_NotEligibleResult ==
  /\ (Called /\ ~InRange(income, householdSize)) =>
       /\ subsidyInfo.subsidy = 0
       /\ subsidyInfo.eligible = FALSE
       /\ subsidyInfo.fplPercent = RoundRatio(100 * income, getFPL(householdSize))
       /\ subsidyInfo.monthlyContribution =
            IF income < getFPL(householdSize) THEN 0
            ELSE RoundRatio(benchmarkPremium.w * benchmarkPremium.d + benchmarkPremium.n,
                            benchmarkPremium.d)
  /\ (Called /\ householdSize = 1 /\ benchmarkPremium = Int2Num(500)) =>
       /\ income = 10000 => subsidyInfo.monthlyContribution = 0 /\ ~subsidyInfo.eligible
       /\ income = 200000 => subsidyInfo.monthlyContribution = 500 /\ ~subsidyInfo.eligible

\* a household above 400% whose benchmark has cents
C3_Witness ==
  /\ Called
  /\ income > 4 * getFPL(householdSize)
  /\ benchmarkPremium = Cents(50040)
  /\ subsidyInfo.monthlyContribution = 500
  /\ subsidyInfo.subsidy = 0

\* C4 as stated: for an eligible household the subsidy is computed from the
\* rounded contribution that is returned:
\* subsidy = round(max(0, benchmarkPremium - monthlyContribution)).
C4_SubsidyFromRoundedContribution ==
  (Called /\ subsidyInfo.eligible) =>
    /\ subsidyInfo.monthlyContribution = Round(RefContribution(income, householdSize))
    /\ subsidyInfo.subsidy =
         Round(NMax(Int2Num(0),
                    NSub(benchmarkPremium, Int2Num(subsidyInfo.monthlyContribution))))

\* C4 amended: for an eligible household monthlyContribution is
\* round(income * applicablePercent / 12) and the subsidy is
\* round(max(0, benchmarkPremium - income * applicablePercent / 12)): the
\* subtraction uses the contribution before it is rounded.
C4_SubsidyFromUnroundedContribution ==
  (Called /\ subsidyInfo.eligible) =>
    /\ subsidyInfo.monthlyContribution = Round(RefContribution(income, householdSize))
    /\ subsidyInfo.subsidy =
         Round(NMax(Int2Num(0),
                    NSub(benchmarkPremium, RefContribution(income, householdSize))))

\* an eligible household for which the two ways of rounding differ
C4_Witness ==
  /\ Called /\ subsidyInfo.eligible
  /\ subsidyInfo.subsidy > 0
  /\ subsidyInfo.subsidy #
       Round(NSub(benchmarkPremium, Int2Num(subsidyInfo.monthlyContribution)))

\* C5: rounding happens at output only: the subsidy comes from the unrounded
\* contribution, and eligibility and the band are decided by the unrounded
\* fplPercent, of which the result carries the rounded value.
C5_RoundingOnlyAtOutput ==
  Called =>
    /\ subsidyInfo.fplPercent = RoundRatio(100 * income, getFPL(householdSize))
    /\ subsidyInfo.subsidy =
         IF InRange(income, householdSize)
         THEN Round(NMax(Int2Num(0),
                         NSub(benchmarkPremium, RefContribution(income, householdSize))))
         ELSE 0

\* the returned fplPercent is 133 while the household is in the 133-150 band
C5_Witness ==
  /\ Called /\ subsidyInfo.eligible
  /\ subsidyInfo.fplPercent = 133
  /\ 100 * income > 133 * getFPL(householdSize)
  /\ subsidyInfo.subsidy > 0
  /\ subsidyInfo.monthlyContribution >
       Round(NDivInt(NMulInt(income, Dec(210, 10000)), 12))

\* the formula of the band above a threshold, evaluated at the threshold
BandAboveAt(b) ==
  CASE b = 133 -> Band133_150(Int2Num(b))
    [] b = 150 -> Band150_200(Int2Num(b))
    [] b = 200 -> Band200_250(Int2Num(b))
    [] b = 250 -> Band250_300(Int2Num(b))
    [] b = 300 -> Band300_400(Int2Num(b))

\* C6 as stated: at each of 133, 150, 200, 250 and 300 the value of the band
\* below at its upper bound (what the call returns there) equals the value of
\* the band above at its lower bound.
C6_ContinuousAtEveryBoundary ==
  \A b \in {133, 150, 200, 250, 300} :
    (Looked /\ fplArg = Int2Num(b)) => applicablePercent = BandAboveAt(b)

\* C6 amended: the band below and the band above agree at 150, 200, 250 and
\* 300; at 133 the curve steps from 2.10% (band below) to 3.14% (band above).
C6_ContinuousExceptAt133 ==
  /\ \A b \in {150, 200, 250, 300} :
       (Looked /\ fplArg = Int2Num(b)) => applicablePercent = BandAboveAt(b)
  /\ (Looked /\ fplArg = Int2Num(133)) =>
       /\ applicablePercent = Dec(210, 10000)
       /\ BandAboveAt(133) = Dec(314, 10000)

\* the curve was evaluated at the 150 threshold
C6_Witness ==
  /\ Looked
  /\ fplArg = Int2Num(150)
  /\ applicablePercent = Dec(419, 10000)

\* C7: getApplicablePercentage is non-decreasing on [100, 400], returns a
\* percentage for every argument of that range, and the bands of the table
\* follow one another without gap from 100 to 400.
C7_NonDecreasing ==
  /\ (Looked /\ ArgInRange(fplArg)) =>
       /\ applicablePercent # Null
       /\ \E k \in 1..Len(BandTable) :
            /\ Owns(BandTable[k], fplArg)
            /\ NLe(Dec(BandTable[k].cLo, 10000), applicablePercent)
            /\ NLe(applicablePercent, Dec(BandTable[k].cHi, 10000))
  /\ (Looked /\ prevPercent # Pending /\ ArgInRange(prevArg) /\ ArgInRange(fplArg)
        /\ NLe(prevArg, fplArg)) => NLe(prevPercent, applicablePercent)
  /\ BandTable[1].lo = 100 /\ BandTable[Len(BandTable)].hi = 400
  /\ \A k \in 1..(Len(BandTable) - 1) : BandTable[k].hi = BandTable[k + 1].lo

\* two calls in different bands, the second with the larger argument and the
\* larger percentage
C7_Witness ==
  /\ Looked /\ prevPercent # Pending
  /\ prevArg = Int2Num(133)
  /\ NLt(prevArg, fplArg) /\ ArgInRange(fplArg)
  /\ NLt(prevPercent, applicablePercent)

\* C8: for a fixed household size and benchmark, of two incomes that are both
\* within 100% to 400% of the poverty level the larger one never gets the
\* larger subsidy, in either variant.
C8_SubsidyNonIncreasing ==
  /\ (Called /\ prevInfo # Pending /\ prevIncome <= income
        /\ InRange(prevIncome, householdSize) /\ InRange(income, householdSize))
       => subsidyInfo.subsidy <= prevInfo.subsidy
  /\ (CalledOld /\ prevInfoOld # Pending /\ prevIncome <= income
        /\ InRangeOld(prevIncome, householdSize) /\ InRangeOld(income, householdSize))
       => subsidyInfoOld.subsidy <= prevInfoOld.subsidy

\* the second income is in a higher band and both variants lower the subsidy
C8_Witness ==
  /\ Called /\ CalledOld /\ prevInfo # Pending
  /\ prevInfo.eligible /\ subsidyInfo.eligible
  /\ prevInfo.fplPercent < 300 /\ subsidyInfo.fplPercent > 300
  /\ subsidyInfo.subsidy < prevInfo.subsidy
  /\ subsidyInfo.subsidy > 0
  /\ subsidyInfoOld.subsidy < prevInfoOld.subsidy

\* C9: for every fplPercent in [100, 400] the call returns
\* cLo + ((fplPercent - lo) / (hi - lo)) * (cHi - cLo) of the band that owns
\* it, with the band table 100-133 2.10%, 133-150 3.14%-4.19%,
\* 150-200 4.19%-6.60%, 200-250 6.60%-8.44%, 250-300 8.44%-9.96%,
\* 300-400 9.96%.
C9_Interpolation ==
  (Looked /\ ArgInRange(fplArg)) =>
    \A k \in 1..Len(BandTable) :
      Owns(BandTable[k], fplArg) => applicablePercent = Interp(BandTable[k], fplArg)

\* an argument strictly inside an interpolated band
C9_Witness ==
  /\ Looked
  /\ fplArg = Int2Num(140)
  /\ NLt(Dec(314, 10000), applicablePercent)
  /\ NLt(applicablePercent, Dec(419, 10000))

\* C10: exactly at a threshold the band below decides: 133 gives 2.10%, 150
\* gives 4.19%, 200 gives 6.60%, 250 gives 8.44%, 300 gives 9.96%; 100 and
\* 400 are eligible.
C10_BoundaryUsesLowerBand ==
  Looked =>
    /\ fplArg = Int2Num(133) => applicablePercent = Dec(210, 10000)
    /\ fplArg = Int2Num(150) => applicablePercent = Dec(419, 10000)
    /\ fplArg = Int2Num(200) => applicablePercent = Dec(660, 10000)
    /\ fplArg = Int2Num(250) => applicablePercent = Dec(844, 10000)
    /\ fplArg = Int2Num(300) => applicablePercent = Dec(996, 10000)
    /\ fplArg = Int2Num(100) => applicablePercent = Dec(210, 10000)
    /\ fplArg = Int2Num(400) => applicablePercent = Dec(996, 10000)

\* the curve was evaluated at the 133 threshold
C10_Witness ==
  /\ Looked
  /\ fplArg = Int2Num(133)
  /\ applicablePercent = Dec(210, 10000)
  /\ BandAboveAt(133) # applicablePercent

\* C11: getFPL(householdSize) is FPL_BASE + max(0, householdSize - 1) *
\* FPL_PER_PERSON in both variants: sizes <= 0 are treated as size 1 (the
\* whole result is that of size 1) and the poverty level is at least FPL_BASE.
C11_PovertyLevelClamped ==
  /\ Called =>
       /\ getFPL(householdSize) =
            IF householdSize <= 1 THEN FPL_BASE
            ELSE FPL_BASE + (householdSize - 1) * FPL_PER_PERSON
       /\ getFPL(householdSize) >= FPL_BASE
       /\ householdSize <= 0 =>
            /\ getFPL(householdSize) = getFPL(1)
            /\ subsidyInfo.fplPercent = RoundRatio(100 * income, FPL_BASE)
            /\ subsidyInfo.eligible <=> (FPL_BASE <= income /\ income <= 4 * FPL_BASE)
  /\ CalledOld =>
       /\ getFPLOld(householdSize) =
            IF householdSize <= 1 THEN FPL_BASE_Old
            ELSE FPL_BASE_Old + (householdSize - 1) * FPL_PER_PERSON_Old
       /\ getFPLOld(householdSize) >= FPL_BASE_Old
       /\ householdSize <= 0 =>
            /\ getFPLOld(householdSize) = getFPLOld(1)
            /\ subsidyInfoOld.fplPercent = RoundRatio(100 * income, FPL_BASE_Old)

\* a household size below 1 whose income is eligible for a one-person household
C11_Witness ==
  /\ Called /\ CalledOld
  /\ householdSize < 0
  /\ subsidyInfo.eligible
  /\ subsidyInfo.fplPercent = 128
  /\ income = 20000

\* C12: an income exactly at the poverty level of its household size is
\* exactly 100 percent, and the household is eligible.
C12_PovertyLineIs100 ==
  (Called /\ income = getFPL(householdSize)) =>
    /\ getFPLPercent(income, householdSize) = Int2Num(100)
    /\ subsidyInfo.fplPercent = 100
    /\ subsidyInfo.eligible

\* a four-person household at its poverty level
C12_Witness ==
  /\ Called
  /\ householdSize = 4
  /\ income = 32150
  /\ subsidyInfo.eligible
  /\ subsidyInfo.fplPercent = 100

\* the unrounded fplPercent lies in [100, 133]
InFlatBand(i, h) == 100 * getFPL(h) <= 100 * i /\ 100 * i <= 133 * getFPL(h)

\* C13 as stated: in the 100-133 band the contribution is
\* round(income * 0.021 / 12) and, when the benchmark exceeds it, the subsidy
\* is the benchmark minus that (rounded) contribution.
C13_SubsidyIsBenchmarkMinusContribution ==
  (Called /\ InFlatBand(income, householdSize)) =>
    /\ subsidyInfo.monthlyContribution = RoundRatio(7 * income, 4000)
    /\ NLt(Int2Num(subsidyInfo.monthlyContribution), benchmarkPremium) =>
         Int2Num(subsidyInfo.subsidy) =
           NSub(benchmarkPremium, Int2Num(subsidyInfo.monthlyContribution))

\* C13 amended: in the 100-133 band the contribution is
\* round(income * 0.021 / 12) and the subsidy is
\* round(max(0, benchmark - income * 0.021 / 12)), from the unrounded
\* contribution; (20000, 1, 500) gives 128, 35, 465, eligible and
\* (40000, 4, 800) gives 124, 70, 730.
C13_FlatBand ==
  /\ (Called /\ InFlatBand(income, householdSize)) =>
       /\ subsidyInfo.eligible
       /\ subsidyInfo.monthlyContribution = RoundRatio(7 * income, 4000)
       /\ subsidyInfo.subsidy =
            Round(NMax(Int2Num(0), NSub(benchmarkPremium, Num(0, 7 * income, 4000))))
  /\ (Called /\ income = 20000 /\ householdSize = 1 /\ benchmarkPremium = Int2Num(500)) =>
       subsidyInfo = [subsidy |-> 465, fplPercent |-> 128, eligible |-> TRUE,
                      monthlyContribution |-> 35]
  /\ (Called /\ income = 40000 /\ householdSize = 4 /\ benchmarkPremium = Int2Num(800)) =>
       /\ getFPL(householdSize) = 32150
       /\ subsidyInfo = [subsidy |-> 730, fplPercent |-> 124, eligible |-> TRUE,
                         monthlyContribution |-> 70]

\* the four-person example
C13_Witness ==
  /\ Called
  /\ income = 40000 /\ householdSize = 4 /\ benchmarkPremium = Int2Num(800)
  /\ subsidyInfo.subsidy = 730
  /\ subsidyInfo.monthlyContribution = 70

ResultFields == {"subsidy", "fplPercent", "eligible", "monthlyContribution"}

\* C14: every result of estimateSubsidy, in both variants and on every
\* branch, carries subsidy, fplPercent, eligible and monthlyContribution.
C14_AllFourFields ==
  /\ Called => DOMAIN subsidyInfo = ResultFields
  /\ CalledOld => DOMAIN subsidyInfoOld = ResultFields

Listed == response # Pending /\ response.view = "plans"

\* a handler that calls the estimator has answered
Handled == response # Pending /\ response.view \in {"plans", "plan"}

\* the handler called estimateSubsidy
EstimatorInvoked == response.subsidyInfo # Null

\* the monthly premium of a rate row for the tobacco profile of the request
ProfilePremium(rate) ==
  IF request.tobacco = "on" /\ rate.individual_tobacco_rate # Null
  THEN rate.individual_tobacco_rate
  ELSE rate.individual_rate

\* the premiums of the Silver plans of the requested state and county
AreaSilverPremiums ==
  LET silver == SelectSeq(areaPlans,
                          LAMBDA p : p.metal_level = "Silver" /\ p.rate # NoRate)
  IN  [k \in 1..Len(silver) |-> ProfilePremium(silver[k].rate)]

\* the element of prem with exactly one element before it in ascending
\* order, equal premiums counted separately
SecondLowest(prem) ==
  LET Before(j, k) == NLt(prem[j], prem[k]) \/ (prem[j] = prem[k] /\ j < k)
      k == CHOOSE i \in 1..Len(prem) :
             Cardinality({j \in 1..Len(prem) : Before(j, i)}) = 1
  IN  prem[k]

\* C16: the benchmark premium that GET /plans passes to estimateSubsidy is
\* the second-lowest premium among the Silver plans available in the
\* requested state and county for the selected age and tobacco profile.
C16_BenchmarkIsSecondLowestSilver ==
  (Listed /\ EstimatorInvoked /\ Len(AreaSilverPremiums) >= 2)
    => response.benchmarkPremium = SecondLowest(AreaSilverPremiums)

\* income queries that are absent, zero or unparsable
NoIncomeQueries == { <<>>, <<"0">>, <<"a", "b", "c">> }

\* C17: a handler calls estimateSubsidy only with a parsed income that is a
\* non-zero number and with a benchmark premium; when the income is absent,
\* zero or unparsable the estimator is not called, subsidyInfo stays null
\* and no plan receives a subsidized_premium.
C17_EstimatorGated ==
  Handled =>
    /\ EstimatorInvoked =>
         /\ response.incomeVal \notin {Null, NaN, JSNum(0)}
         /\ response.benchmarkPremium \notin {Null, Int2Num(0)}
    /\ request.income \in NoIncomeQueries =>
         /\ ~EstimatorInvoked
         /\ \A k \in 1..Len(response.plans) :
              "subsidized_premium" \notin DOMAIN response.plans[k]

C17_Witness ==
  /\ Handled
  /\ request.income = <<"0">>
  /\ response.incomeVal = JSNum(0)
  /\ ~EstimatorInvoked
  /\ \E k \in 1..Len(response.plans) : response.plans[k].rate # NoRate

\* C18: the 2026 estimateSubsidy returns a result for every income
\* (zero and negative included), every household size (0 and negative
\* included) and every benchmark premium: sizes below 1 count as 1, an
\* income of 0 gives fplPercent 0, eligible false and subsidy 0, and a
\* negative income takes the not-eligible branch.
C18_TotalOnAllInputs ==
  Called =>
    /\ DOMAIN subsidyInfo = ResultFields
    /\ subsidyInfo.subsidy \in Nat
    /\ subsidyInfo.fplPercent \in Int
    /\ subsidyInfo.eligible \in BOOLEAN
    /\ subsidyInfo.monthlyContribution \in Int
    /\ householdSize <= 0 => subsidyInfo.fplPercent = RoundRatio(100 * income, FPL_BASE)
    /\ income = 0 =>
         /\ subsidyInfo.fplPercent = 0
         /\ ~subsidyInfo.eligible
         /\ subsidyInfo.subsidy = 0
    /\ income < 0 =>
         /\ ~subsidyInfo.eligible
         /\ subsidyInfo.subsidy = 0

C18_Witness ==
  /\ Called
  /\ income = 0
  /\ householdSize < 0
  /\ NLt(Int2Num(0), benchmarkPremium)
  /\ subsidyInfo.subsidy = 0

\* C20: in GET /plans a plan has a subsidized_premium only when subsidyInfo
\* exists and is eligible and the plan has a rate; it then is
\* round(monthly_premium - subsidy), or 0 where that is negative, so it is
\* never negative and never above round(monthly_premium); a plan without a
\* rate has monthly_premium null and no subsidized_premium.
C20_SubsidizedPremium ==
  Listed =>
    \A k \in 1..Len(response.plans) :
      LET plan == response.plans[k]
      IN  /\ "subsidized_premium" \in DOMAIN plan =>
               /\ EstimatorInvoked
               /\ response.subsidyInfo.eligible
               /\ plan.rate # NoRate
               /\ LET net == Round(NSub(plan.monthly_premium,
                                        Int2Num(response.subsidyInfo.subsidy)))
                  IN  plan.subsidized_premium = IF net < 0 THEN 0 ELSE net
               /\ plan.subsidized_premium >= 0
               /\ plan.subsidized_premium <= Round(plan.monthly_premium)
          /\ plan.rate = NoRate =>
               /\ plan.monthly_premium = Null
               /\ "subsidized_premium" \notin DOMAIN plan

C20_Witness ==
  /\ Listed
  /\ \E k \in 1..Len(response.plans) :
       /\ "subsidized_premium" \in DOMAIN response.plans[k]
       /\ response.plans[k].subsidized_premium = 0
       /\ NLt(response.plans[k].monthly_premium,
              Int2Num(response.subsidyInfo.subsidy))
  /\ \E k \in 1..Len(response.plans) : response.plans[k].rate = NoRate

\* the sort values that select another order than price ascending
OtherSorts == {"price_desc", "deductible_asc", "deductible_desc", "oop_asc"}

\* the household of the request is eligible for a subsidy
HouseholdEligible == EstimatorInvoked /\ response.subsidyInfo.eligible

Priced(plan) == plan.monthly_premium # Null

\* the premium the household would pay for a priced plan
EffectivePremium(plan) ==
  IF HouseholdEligible THEN Int2Num(plan.subsidized_premium)
  ELSE plan.monthly_premium

IncomeSupplied == response.incomeVal \notin {Null, NaN, JSNum(0)}

\* the premiums of the rated Silver plans among the plans the request selects
ListedSilverPremiums ==
  LET silver == SelectSeq(response.plans,
                          LAMBDA p : p.metal_level = "Silver" /\ Priced(p))
  IN  [k \in 1..Len(silver) |-> silver[k].monthly_premium]

BothListed == Listed /\ prevResponse # Pending

\* C23: the subsidyInfo of GET /plans does not depend on the metal, type and
\* issuer filters: two requests that differ only in these filters use the
\* same benchmark premium and report the same subsidy.
C23_FiltersDoNotChangeSubsidy ==
  BothListed =>
    /\ response.benchmarkPremium = prevResponse.benchmarkPremium
    /\ response.subsidyInfo = prevResponse.subsidyInfo

\* the rates at which the bands of the older variant meet, in 1/1000
OldBandJoints ==
  << [at |-> 150, rate |-> 0], [at |-> 200, rate |-> 20], [at |-> 250, rate |-> 40],
     [at |-> 300, rate |-> 60], [at |-> 400, rate |-> 85] >>

\* the steepest slope of the older curve: 2% over 50 points of fplPercent
OldMaxSlope == Dec(4, 10000)

\* C24: the contribution rate of the older variant is continuous and
\* non-decreasing over all fplPercent >= 0: the bands meet at 150 (0%),
\* 200 (2%), 250 (4%), 300 (6%) and 400 (8.5%), the rate above 400 is the
\* flat 8.5%, and between two arguments the rate never falls and never rises
\* by more than the steepest band slope times their distance (no jump).
C24_OldCurveContinuous ==
  /\ \A k \in 1..Len(OldBandJoints) :
       (Looked /\ fplArg = Int2Num(OldBandJoints[k].at)) =>
         applicablePercent = Dec(OldBandJoints[k].rate, 1000)
  /\ (Looked /\ NLt(Int2Num(400), fplArg)) => applicablePercent = Dec(85, 1000)
  /\ (Looked /\ prevPercent # Pending /\ NLe(prevArg, fplArg)) =>
       /\ NLe(prevPercent, applicablePercent)
       /\ NLe(applicablePercent,
              NAdd(prevPercent, NMul(NSub(fplArg, prevArg), OldMaxSlope)))

\* the rate at the 400 threshold and then just above it
C24_Witness ==
  /\ Looked /\ prevPercent # Pending
  /\ prevArg = Int2Num(400)
  /\ NLt(prevArg, fplArg) /\ NLt(fplArg, Int2Num(401))
  /\ prevPercent = Dec(85, 1000)
  /\ applicablePercent = Dec(85, 1000)

\* ids of a request between the commas, counted without split
IdCount(ids) == 1 + Cardinality({i \in 1..Len(ids) : ids[i] = ","})

\* the ids of a list written with commas between them
RECURSIVE JoinIds(_)
JoinIds(list) ==
  IF Len(list) = 0 THEN <<>>
  ELSE IF Len(list) = 1 THEN list[1]
  ELSE list[1] \o <<",">> \o JoinIds(Tail(list))

\* C25: at most four plans are ever compared: the selectedPlans set and the
\* checked boxes never exceed 4, a change event that raised the alert left
\* four plans selected, and every /compare handler queries at most 4 ids,
\* which are the first ids of the request
C25_AtMostFourCompared ==
  /\ Cardinality(selectedPlans) <= 4
  /\ Cardinality(checkedBoxes) <= 4
  /\ compareAlert => Cardinality(selectedPlans) = 4
  /\ compare # Pending =>
       /\ Len(compare.planIds) <= 4
       /\ compare.status = "query" =>
            /\ Len(compare.planIds) = IF IdCount(compare.ids) < 4
                                        THEN IdCount(compare.ids) ELSE 4
            /\ LET joined == JoinIds(compare.planIds)
               IN  /\ Len(joined) <= Len(compare.ids)
                   /\ SubSeq(compare.ids, 1, Len(joined)) = joined
                   /\ \/ Len(joined) = Len(compare.ids)
                      \/ /\ compare.ids[Len(joined) + 1] = ","
                         /\ Len(compare.planIds) = 4

\* a fifth check was rejected with four plans selected, and a handler was
\* sent more than four ids
C25_Witness ==
  /\ compareAlert
  /\ Cardinality(selectedPlans) = 4
  /\ compare # Pending
  /\ compare.status = "query"
  /\ IdCount(compare.ids) > 4
  /\ compare.route = "/pdf/compare"

\* C26: at most one zip lookup is under way at any time, and a step that
\* starts a fetch starts it with isLookingUp false
C26_OneLookupInFlight ==
  /\ [](Len(inFlight) <= 1 /\ (inFlight # <<>> => isLookingUp))
  /\ [][Len(inFlight') > Len(inFlight) => ~isLookingUp]_vars

\* a zip was typed during a lookup of another one and its timer has fired
\* without a second fetch
C26_Witness ==
  /\ Len(inFlight) = 1
  /\ Len(zipInput) = 5
  /\ zipInput # inFlight[1]
  /\ lastLookedUpZip = inFlight[1]
  /\ debounceTimer = <<>>

\* C27: once lookupZipCode has set isLookingUp it is eventually false again,
\* whatever the outcome of the lookup
C27_FlagEventuallyReset == isLookingUp ~> ~isLookingUp

\* a lookup ran to the step transition while the user had changed the zip,
\* and the flag is false again
C27_Witness ==
  /\ ~isLookingUp
  /\ lastLookedUpZip \in ZipCodes
  /\ zipInput # lastLookedUpZip
  /\ step = "household"
  /\ inFlight = <<>>
  /\ stepTimers = {}

\* C28: a five-digit zip that was typed (its debounce timer set, so it
\* differs from lastLookedUpZip) and is left in the input is eventually
\* looked up
C28_TypedZipEventuallyLookedUp ==
  \A zip \in ZipCodes :
    (debounceTimer = zip /\ zipInput = zip)
      ~> (lastLookedUpZip = zip \/ zipInput # zip)

\* C29: whenever the wizard switches to the county or household step, the
\* zip input holds the zip whose state and counties fill the form
C29_ResultAppliedToCurrentZip ==
  [][(step' # step /\ step' \in {"county", "household"})
       => (zipInput' = stateZip' /\ zipInput' = countyZip')]_vars

\* C30: after a lookup of a zip ended in a failure message, entering the
\* same zip again or pressing Enter on it eventually starts a new lookup of
\* it, as long as it is left in the input
C30_FailedZipCanBeRetried ==
  \A zip \in ZipCodes :
    (failedZip = zip /\ zipInput = zip /\ retried)
      ~> ((zip = lastLookedUpZip /\ isLookingUp /\ failedZip = <<>>)
            \/ zipInput # zip)

====
